---------------------------- MODULE Spec2Model ----------------------------
(***************************************************************************)
(* A model of staticpub.py, the static ActivityPub generator.              *)
(*                                                                         *)
(* Python strings are sequences of one-character strings, so that          *)
(* str.startswith, str.strip, str.split, str.rsplit, strptime and strftime *)
(* are computed character by character.  A dict is a function whose        *)
(* DOMAIN is its key set.  The list of notes is a heap of dict objects,    *)
(* an object's identity being its index in that list.                      *)
(***************************************************************************)
EXTENDS Integers, Sequences, FiniteSets, TLC

VARIABLES
    pc,                     \* position of run_staticpub, or of the parse harness
    clock,                  \* the wall clock at the latest point now() can be read
    entries,                \* path.glob("**/*") of the entries directory, in its order
    featured_note,          \* the featured pseudo note: <<>> or <<file>>
    notes,                  \* notes_generator: the list of note objects (shared)
    notes_sorted,           \* create_outbox: indices into notes, sorted and cut
    paginate_by,            \* create_outbox: int(config["Outbox"].get("paginate_by", "0"))
    error,                  \* the exception that ended the run, "" when none
    written,                \* fixed-name output files written by this run
    posts,                  \* posts/<note_id> -> the document json.dump wrote
    toots,                  \* <<>> or <<the toots document>>
    outbox,                 \* <<>> or <<the outbox document>>
    featured,               \* <<>> or <<the featured document>>
    pseudo_note_filename,   \* parse harness: argument of parse_notes
    pseudo_note,            \* parse harness: argument of parse_notes
    object_note             \* parse harness: what parse_notes returned or raised

vars == <<pc, clock, entries, featured_note, notes, notes_sorted, paginate_by, error,
          written, posts, toots, outbox, featured,
          pseudo_note_filename, pseudo_note, object_note>>

-----------------------------------------------------------------------------
(* Bounds of the model *)

\* longest pseudo note (in lines) the parse harness enumerates
MaxLines == 4
\* most files in the entries directory of a run
MaxFiles == 2
\* largest [Outbox] paginate_by of a run
MaxPaginate == 2

-----------------------------------------------------------------------------
(* str methods *)

Whitespace == {" ", "\t", "\n", "\r"}

\* str.startswith
StartsWith(s, prefix) ==
    Len(s) >= Len(prefix) /\ SubSeq(s, 1, Len(prefix)) = prefix

\* line.replace("\n", "")
RemoveNewlines(s) == SelectSeq(s, LAMBDA c : c # "\n")

RECURSIVE LStrip(_)
LStrip(s) ==
    IF s # <<>> /\ Head(s) \in Whitespace THEN LStrip(Tail(s)) ELSE s

RECURSIVE RStrip(_)
RStrip(s) ==
    IF s # <<>> /\ s[Len(s)] \in Whitespace
    THEN RStrip(SubSeq(s, 1, Len(s) - 1))
    ELSE s

\* str.strip()
Strip(s) == RStrip(LStrip(s))

remove_newlines_strip(line) == Strip(RemoveNewlines(line))

\* the occurrences of sep in s, as start indices
Occurrences(s, sep) ==
    {i \in 1..(Len(s) - Len(sep) + 1) : SubSeq(s, i, i + Len(sep) - 1) = sep}

SetMin(S) == CHOOSE x \in S : \A y \in S : x <= y
SetMax(S) == CHOOSE x \in S : \A y \in S : x >= y

\* s.split(sep): cut at every occurrence, scanning left to right
RECURSIVE Split(_, _)
Split(s, sep) ==
    LET occ == Occurrences(s, sep) IN
    IF occ = {} THEN <<s>>
    ELSE LET i == SetMin(occ) IN
         <<SubSeq(s, 1, i - 1)>> \o Split(SubSeq(s, i + Len(sep), Len(s)), sep)

\* s.rsplit(sep, 1): cut at the last occurrence only
RSplit1(s, sep) ==
    LET occ == Occurrences(s, sep) IN
    IF occ = {} THEN <<s>>
    ELSE LET i == SetMax(occ) IN
         <<SubSeq(s, 1, i - 1), SubSeq(s, i + Len(sep), Len(s))>>

\* "".join(lines)
RECURSIVE Join(_)
Join(lines) == IF lines = <<>> THEN <<>> ELSE Head(lines) \o Join(Tail(lines))

-----------------------------------------------------------------------------
(* datetime: strftime and strptime with "%Y-%m-%dT%H:%M:%SZ" *)

Digits == <<"0", "1", "2", "3", "4", "5", "6", "7", "8", "9">>
IsDigit(c) == \E i \in 1..10 : Digits[i] = c
DigitVal(c) == (CHOOSE i \in 1..10 : Digits[i] = c) - 1
AllDigits(s) == \A i \in 1..Len(s) : IsDigit(s[i])

RECURSIVE ToInt(_)
ToInt(s) ==
    IF s = <<>> THEN 0
    ELSE 10 * ToInt(SubSeq(s, 1, Len(s) - 1)) + DigitVal(s[Len(s)])

Pad2(n) == <<Digits[(n \div 10) + 1], Digits[(n % 10) + 1]>>
Pad4(n) == Pad2(n \div 100) \o Pad2(n % 100)

\* a datetime is <<year, month, day, hour, minute, second>>
Strftime(dt) ==
    Pad4(dt[1]) \o <<"-">> \o Pad2(dt[2]) \o <<"-">> \o Pad2(dt[3]) \o <<"T">>
    \o Pad2(dt[4]) \o <<":">> \o Pad2(dt[5]) \o <<":">> \o Pad2(dt[6]) \o <<"Z">>

\* now() when the wall clock reads t
now(t) == Strftime(t)

IsLeap(y) == (y % 4 = 0 /\ y % 100 # 0) \/ y % 400 = 0
DaysInMonth(y, m) ==
    IF m = 2 THEN (IF IsLeap(y) THEN 29 ELSE 28)
    ELSE IF m \in {4, 6, 9, 11} THEN 30 ELSE 31

\* the wall clock one second later
Tick(dt) ==
    IF dt[6] < 59 THEN [dt EXCEPT ![6] = dt[6] + 1]
    ELSE IF dt[5] < 59 THEN [dt EXCEPT ![6] = 0, ![5] = dt[5] + 1]
    ELSE IF dt[4] < 23 THEN [dt EXCEPT ![6] = 0, ![5] = 0, ![4] = dt[4] + 1]
    ELSE IF dt[3] < DaysInMonth(dt[1], dt[2]) THEN <<dt[1], dt[2], dt[3] + 1, 0, 0, 0>>
    ELSE IF dt[2] < 12 THEN <<dt[1], dt[2] + 1, 1, 0, 0, 0>>
    ELSE <<dt[1] + 1, 1, 1, 0, 0, 0>>

\* the first index of s holding one of chars, 0 when none
FirstOf(s, chars) ==
    LET at == {i \in 1..Len(s) : s[i] \in chars} IN
    IF at = {} THEN 0 ELSE SetMin(at)

\* the literals of "%Y-%m-%dT%H:%M:%SZ" in order; strptime matches ignoring case
FormatLiterals == <<{"-"}, {"-"}, {"T", "t"}, {":"}, {":"}, {"Z", "z"}>>

\* The texts the directives match: each directive is followed by a literal no
\* directive can match, so it takes the whole text up to it.  Seven texts (the
\* six fields and what follows "Z") when every literal is found, fewer otherwise.
RECURSIVE Fields(_, _)
Fields(s, literals) ==
    IF literals = <<>> THEN <<s>>
    ELSE LET i == FirstOf(s, Head(literals)) IN
         IF i = 0 THEN <<>>
         ELSE <<SubSeq(s, 1, i - 1)>> \o Fields(SubSeq(s, i + 1, Len(s)), Tail(literals))

\* %m %H %M %S: one or two digits; %d also " " and a digit 1-9
OneOrTwo(t) == Len(t) \in {1, 2} /\ AllDigits(t)
DayText(t) ==
    IF Len(t) = 2 /\ t[1] = " " /\ IsDigit(t[2]) /\ t[2] # "0" THEN <<t[2]>> ELSE t

BadDate == [ok |-> FALSE, dt |-> <<0, 0, 0, 0, 0, 0>>]

\* the datetime of the numbers read, ValueError when one is out of range
MakeDate(y, m, d, H, M, S) ==
    IF y >= 1 /\ m \in 1..12 /\ d >= 1 /\ d <= DaysInMonth(y, m)
       /\ H <= 23 /\ M <= 59 /\ S <= 59
    THEN [ok |-> TRUE, dt |-> <<y, m, d, H, M, S>>]
    ELSE BadDate

FieldsToDate(f) ==
    IF Len(f) # 7 THEN BadDate
    ELSE IF f[7] # <<>> THEN BadDate
    ELSE IF ~(Len(f[1]) = 4 /\ AllDigits(f[1]) /\ OneOrTwo(f[2])
              /\ OneOrTwo(DayText(f[3])) /\ OneOrTwo(f[4]) /\ OneOrTwo(f[5])
              /\ OneOrTwo(f[6])) THEN BadDate
    ELSE MakeDate(ToInt(f[1]), ToInt(f[2]), ToInt(DayText(f[3])),
                  ToInt(f[4]), ToInt(f[5]), ToInt(f[6]))

\* datetime.datetime.strptime(date_str, "%Y-%m-%dT%H:%M:%SZ"); ok = FALSE is ValueError
str_to_datetime(date_str) == FieldsToDate(Fields(date_str, FormatLiterals))

\* datetime comparison a < b
RECURSIVE TupleLess(_, _)
TupleLess(a, b) ==
    IF a = <<>> THEN FALSE
    ELSE IF Head(a) # Head(b) THEN Head(a) < Head(b)
    ELSE TupleLess(Tail(a), Tail(b))

DateLess(a, b) == TupleLess(a, b)
DateLeq(a, b) == ~TupleLess(b, a)

-----------------------------------------------------------------------------
(* parse_notes *)

K_context == <<"@", "c", "o", "n", "t", "e", "x", "t">>
K_id == <<"i", "d">>
K_to == <<"t", "o">>
K_sensitive == <<"s", "e", "n", "s", "i", "t", "i", "v", "e">>
K_filename == <<"f", "i", "l", "e", "n", "a", "m", "e">>
K_content == <<"c", "o", "n", "t", "e", "n", "t">>
K_published == <<"p", "u", "b", "l", "i", "s", "h", "e", "d">>

\* config["Instance"].get("domain")
Domain == <<"h", "t", "t", "p", "s", ":", "/", "/", "d">>
\* the non-string values parse_notes puts in a note, as opaque non-empty texts
ContextValue == <<"[", "c", "t", "x", "]">>
PublicValue == <<"[", "P", "u", "b", "l", "i", "c", "]">>
FalseValue == <<"f", "a", "l", "s", "e">>

POSTS == <<"/", "p", "o", "s", "t", "s", "/">>
Delimiter == <<"-", "-", "-">>
Separator == <<":", " ">>
Dot == <<".">>

\* [index for index, line in enumerate(pseudo_note) if line.startswith("---")]
DelimiterIndexes(lines) ==
    {i \in 1..Len(lines) : StartsWith(lines[i], Delimiter)}

\* dict.update: other's keys win
Update(d, other) ==
    [k \in (DOMAIN d) \cup (DOMAIN other) |->
        IF k \in DOMAIN other THEN other[k] ELSE d[k]]

EmptyDict == [k \in {} |-> <<>>]
OneKey(key, value) == [k \in {key} |-> value]

\* the header block split: one list of parts per line of pseudo_note[begin+1:end]
HeaderParts(lines, headers_begin, headers_end) ==
    [i \in 1..(headers_end - headers_begin - 1) |->
        Split(remove_newlines_strip(lines[headers_begin + i]), Separator)]

\* dict([(key.strip(), value.strip()) for key, value in parts]): the last pair
\* of a key wins
HeaderDict(parts) ==
    LET keys == {Strip(parts[i][1]) : i \in 1..Len(parts)} IN
    [k \in keys |->
        LET last == SetMax({i \in 1..Len(parts) : Strip(parts[i][1]) = k}) IN
        Strip(parts[last][2])]

ParseError(err) == [ok |-> FALSE, err |-> err, note |-> EmptyDict]

\* mutant: the dict literal with "@context": []
DefaultNote_EmptyContext(filename, note_id) ==
    Update(Update(Update(Update(
        OneKey(K_context, <<>>),
        OneKey(K_id, Domain \o POSTS \o note_id)),
        OneKey(K_to, PublicValue)),
        OneKey(K_sensitive, FalseValue)),
        OneKey(K_filename, filename))

\* the dict literal of lines 93-102
DefaultNote(filename, note_id) ==
    Update(Update(Update(Update(
        OneKey(K_context, ContextValue),
        OneKey(K_id, Domain \o POSTS \o note_id)),
        OneKey(K_to, PublicValue)),
        OneKey(K_sensitive, FalseValue)),
        OneKey(K_filename, filename))

\* object_note.update(dict(...headers...))
MergeHeaders(defaults, headers) == Update(defaults, headers)

parse_notes(filename, lines, t) ==
    LET idx == DelimiterIndexes(lines) IN
    IF Cardinality(idx) # 2 THEN ParseError("ValueError: badly formatted headers")
    ELSE
    LET headers_begin == SetMin(idx)
        headers_end   == SetMax(idx)
        name_parts    == RSplit1(filename, Dot)
        parts         == HeaderParts(lines, headers_begin, headers_end)
    IN
    IF Len(name_parts) # 2 THEN ParseError("ValueError: filename")
    ELSE IF \E i \in 1..Len(parts) : Len(parts[i]) # 2
    THEN ParseError("ValueError: header line")
    ELSE
    LET merged  == MergeHeaders(DefaultNote(filename, name_parts[1]), HeaderDict(parts))
        content == Update(merged,
                     OneKey(K_content, Join(SubSeq(lines, headers_end + 1, Len(lines)))))
    IN
    [ok   |-> TRUE,
     err  |-> "",
     note |-> IF K_published \in DOMAIN content THEN content
              ELSE Update(content, OneKey(K_published, now(t)))]

-----------------------------------------------------------------------------
(* Inputs *)

L_delim == <<"-", "-", "-", "\n">>
L_kv == <<"k", ":", " ", "v", "\n">>
L_padded == <<" ", "k", " ", ":", " ", " ", "w", " ", "\n">>
L_id == <<"i", "d", ":", " ", "x", "\n">>
L_summary == <<"s", "u", "m", "m", "a", "r", "y", ":", " ", "a", ":", " ", "b", "\n">>
L_text == <<"t", "e", "x", "t", "\n">>
L_pub1 == <<"p", "u", "b", "l", "i", "s", "h", "e", "d", ":", " ", "2", "0", "2", "4", "-", "0", "1", "-", "0", "1", "T", "0", "0", ":", "0", "0", ":", "0", "0", "Z", "\n">>
L_pub2 == <<"p", "u", "b", "l", "i", "s", "h", "e", "d", ":", " ", "2", "0", "2", "4", "-", "0", "1", "-", "0", "2", "T", "0", "0", ":", "0", "0", ":", "0", "0", "Z", "\n">>
L_pub1short == <<"p", "u", "b", "l", "i", "s", "h", "e", "d", ":", " ", "2", "0", "2", "4", "-", "1", "-", "1", "T", "0", ":", "0", ":", "0", "Z", "\n">>
L_pubbad == <<"p", "u", "b", "l", "i", "s", "h", "e", "d", ":", " ", "s", "o", "o", "n", "\n">>
L_context == <<"@", "c", "o", "n", "t", "e", "x", "t", ":", " ", "x", "\n">>
L_nocontext == <<"@", "c", "o", "n", "t", "e", "x", "t", ":", " ", "\n">>

\* the lines a pseudo note of the parse harness is made of
Lines ==
    {L_delim, L_kv, L_padded, L_id, L_summary, L_text, L_pub1, L_context, L_nocontext}

F_a_txt == <<"a", ".", "t", "x", "t">>
F_a_md == <<"a", ".", "m", "d">>
F_b_txt == <<"b", ".", "t", "x", "t">>
F_gitkeep == <<".", "g", "i", "t", "k", "e", "e", "p">>
F_subdir == <<"s", "u", "b">>
F_featured == <<"p", "i", "n", "n", "e", "d", ".", "t", "x", "t">>
F_noext == <<"a">>
F_twodots == <<"a", ".", "b", ".", "m", "d">>

Filenames == {F_a_txt, F_noext, F_twodots}

\* all sequences over S of length at most n
RECURSIVE SeqsUpTo(_, _)
SeqsUpTo(S, n) ==
    IF n = 0 THEN {<<>>}
    ELSE LET shorter == SeqsUpTo(S, n - 1) IN
         shorter \cup {Append(s, x) : s \in {t \in shorter : Len(t) = n - 1}, x \in S}

\* the wall clock when the run starts
Clocks == {<<2024, 1, 1, 23, 59, 59>>}
\* the wall clock between two steps of the run: the same second or the next
Later(t) == {t, Tick(t)}

\* the pseudo notes of a run
N_pub1 == <<L_delim, L_pub1, L_delim, L_text>>
N_pub2 == <<L_text, L_delim, L_pub2, L_delim, L_text>>
N_pub1short == <<L_delim, L_pub1short, L_delim>>
N_nocontext == <<L_delim, L_nocontext, L_delim, L_text>>
N_context == <<L_delim, L_context, L_delim, L_text>>
N_pubbad == <<L_delim, L_pubbad, L_delim, L_text>>
N_onedelim == <<L_delim>>

\* the file system the run reads: a path's name (Path.name) and a text's lines
\* (open("r").readlines()); an entry of the state names its path and its text
Name(path) ==
    CASE path = "entries/a.txt"    -> F_a_txt
      [] path = "entries/a.md"     -> F_a_md
      [] path = "entries/b.txt"    -> F_b_txt
      [] path = "entries/.gitkeep" -> F_gitkeep
      [] path = "entries/sub"      -> F_subdir
      [] path = "pinned.txt"       -> F_featured

readlines(text) ==
    CASE text = "pub1"      -> N_pub1
      [] text = "pub2"      -> N_pub2
      [] text = "pub1short" -> N_pub1short
      [] text = "nocontext" -> N_nocontext
      [] text = "context"   -> N_context
      [] text = "pubbad"    -> N_pubbad
      [] text = "onedelim"  -> N_onedelim
      [] text = "empty"     -> <<>>

RunTexts == {"pub1", "pub2", "pub1short", "context", "nocontext", "pubbad", "onedelim"}
RunPaths == {"entries/a.txt", "entries/a.md", "entries/b.txt"}

\* what path.glob("**/*") can yield: pseudo notes, a directory, the .gitkeep file
File(path, text) == [path |-> path, is_file |-> TRUE, text |-> text]
GitKeep == File("entries/.gitkeep", "empty")
SubDir == [path |-> "entries/sub", is_file |-> FALSE, text |-> "empty"]
GlobEntries ==
    {File(p, t) : p \in RunPaths, t \in RunTexts} \cup {GitKeep, SubDir}

\* glob yields every path once
DistinctPaths(seq) ==
    \A i, j \in 1..Len(seq) : i # j => seq[i].path # seq[j].path

FeaturedNotes ==
    {<<>>, <<File("pinned.txt", "pub1")>>, <<File("pinned.txt", "onedelim")>>}

-----------------------------------------------------------------------------
(* generate_create_activity and the sort of create_outbox *)

Slash == "/"

\* mutant: generate_create_activity without del note["@context"]
generate_create_activity_KeepContext(heap, i, t) ==
    LET note  == heap[i]
        parts == RSplit1(note[K_filename], Dot)
    IN
    IF ~(K_context \in DOMAIN note /\ note[K_context] # <<>>)
    THEN [err |-> "AssertionError: Note has no context?", heap |-> heap,
          activity |-> EmptyDict]
    ELSE IF Len(parts) # 2
    THEN [err |-> "ValueError: filename", heap |-> heap, activity |-> EmptyDict]
    ELSE [err |-> "", heap |-> heap,
          activity |-> [id        |-> Domain \o POSTS \o parts[1],
                        type      |-> "Create",
                        published |-> IF K_published \in DOMAIN note
                                      THEN note[K_published] ELSE now(t),
                        object    |-> i]]

\* generate_create_activity on the note object heap[i]: the assertion, the del
\* of "@context" in place, the activity holding a reference to the object
generate_create_activity(heap, i, t) ==
    LET note == heap[i] IN
    IF ~(K_context \in DOMAIN note /\ note[K_context] # <<>>)
    THEN [err |-> "AssertionError: Note has no context?", heap |-> heap,
          activity |-> EmptyDict]
    ELSE
    LET stripped == [k \in (DOMAIN note) \ {K_context} |-> note[k]]
        heap2    == [heap EXCEPT ![i] = stripped]
        parts    == RSplit1(stripped[K_filename], Dot)
    IN
    IF Len(parts) # 2
    THEN [err |-> "ValueError: filename", heap |-> heap2, activity |-> EmptyDict]
    ELSE [err |-> "", heap |-> heap2,
          activity |-> [id        |-> Domain \o POSTS \o parts[1],
                        type      |-> "Create",
                        published |-> IF K_published \in DOMAIN stripped
                                      THEN stripped[K_published] ELSE now(t),
                        object    |-> i]]

\* [generate_create_activity(config, note=note) for note in notes_sorted]
RECURSIVE CreateActivities(_, _, _, _, _)
CreateActivities(heap, order, k, items, t) ==
    IF k > Len(order) THEN [err |-> "", heap |-> heap, items |-> items]
    ELSE LET r == generate_create_activity(heap, order[k], t) IN
         IF r.err # "" THEN [err |-> r.err, heap |-> r.heap, items |-> items]
         ELSE CreateActivities(r.heap, order, k + 1, Append(items, r.activity), t)

\* the sort keys, one per note: str_to_datetime(note.get("published"));
\* sorted calls the key function once per element
RECURSIVE SortKeys(_, _)
SortKeys(heap, k) ==
    IF k > Len(heap) THEN <<>>
    ELSE <<str_to_datetime(heap[k][K_published])>> \o SortKeys(heap, k + 1)

\* mutant: sorted(...) without reverse=True
Rank_Ascending(keys, i) ==
    1 + Cardinality({j \in 1..Len(keys) :
            \/ DateLess(keys[j].dt, keys[i].dt)
            \/ (keys[j].dt = keys[i].dt /\ j < i)})

\* the place of note i in sorted(notes, key=..., reverse=True): after every note
\* with a later key and, the sort being stable, after the equal ones before it
Rank(keys, i) ==
    1 + Cardinality({j \in 1..Len(keys) :
            \/ DateLess(keys[i].dt, keys[j].dt)
            \/ (keys[j].dt = keys[i].dt /\ j < i)})

RECURSIVE SortedDesc(_, _)
SortedDesc(keys, r) ==
    IF r > Len(keys) THEN <<>>
    ELSE <<CHOOSE i \in 1..Len(keys) : Rank(keys, i) = r>> \o SortedDesc(keys, r + 1)

\* mutant: notes_sorted[:paginate_by - 1]
Paginate_OneShort(sorted, limit) ==
    IF limit # 0 /\ Len(sorted) > limit
    THEN SubSeq(sorted, 1, limit - 1)
    ELSE sorted

\* mutant: notes_sorted[-paginate_by:]
Paginate_KeepOldest(sorted, limit) ==
    IF limit # 0 /\ Len(sorted) > limit
    THEN SubSeq(sorted, Len(sorted) - limit + 1, Len(sorted))
    ELSE sorted

\* if paginate_by and len(notes_sorted) > paginate_by: notes_sorted[:paginate_by]
Paginate(sorted, limit) ==
    IF limit # 0 /\ Len(sorted) > limit
    THEN SubSeq(sorted, 1, limit)
    ELSE sorted

\* what json.dump writes for an activity: the object as it is at that moment
DumpActivity(heap, activity) ==
    [id |-> activity.id, type |-> activity.type, published |-> activity.published,
     object |-> heap[activity.object]]

\* what json.dump writes for a note in create_posts
DumpNote(note) == note

-----------------------------------------------------------------------------
(* run_staticpub *)

\* an exception ends the run: pc stays at the call that raised it
Abort(err) == pc' = pc /\ error' = err

Init ==
    /\ pc = "mkdir"
    /\ clock \in Clocks
    /\ entries \in {e \in SeqsUpTo(GlobEntries, MaxFiles) : DistinctPaths(e)}
    /\ featured_note \in FeaturedNotes
    /\ notes = <<>>
    /\ notes_sorted = <<>>
    /\ paginate_by = 0
    /\ error = ""
    /\ written = {}
    /\ posts = EmptyDict
    /\ toots = <<>>
    /\ outbox = <<>>
    /\ featured = <<>>
    /\ pseudo_note_filename = <<>>
    /\ pseudo_note = <<>>
    /\ object_note = ParseError("")

\* the three mkdir calls
mkdir ==
    /\ pc = "mkdir"
    /\ error = ""
    /\ pc' = "create_instance_files"
    /\ UNCHANGED <<clock, entries, featured_note, notes, notes_sorted, paginate_by, error,
                   written, posts, toots, outbox, featured,
                   pseudo_note_filename, pseudo_note, object_note>>

create_instance_files ==
    /\ pc = "create_instance_files"
    /\ error = ""
    /\ \E github_instance \in BOOLEAN :
       written' = written \cup {"index.html"}
                  \cup (IF github_instance THEN {"CNAME", ".nojekyll"} ELSE {})
    /\ pc' = "create_actor"
    /\ UNCHANGED <<clock, entries, featured_note, notes, notes_sorted, paginate_by, error,
                   posts, toots, outbox, featured,
                   pseudo_note_filename, pseudo_note, object_note>>

\* banner_path.is_file() guards both copies; copy asserts that its origin is a file
create_actor ==
    /\ pc = "create_actor"
    /\ error = ""
    /\ \E banner_is_file, icon_is_file \in BOOLEAN :
       IF banner_is_file /\ ~icon_is_file
       THEN /\ written' = written \cup {"banner"}
            /\ Abort("AssertionError: copy")
       ELSE /\ written' = written \cup {"actor"}
                   \cup (IF banner_is_file THEN {"banner", "icon"} ELSE {})
            /\ pc' = "create_webfinger"
            /\ error' = error
    /\ UNCHANGED <<clock, entries, featured_note, notes, notes_sorted, paginate_by,
                   posts, toots, outbox, featured,
                   pseudo_note_filename, pseudo_note, object_note>>

create_webfinger ==
    /\ pc = "create_webfinger"
    /\ error = ""
    /\ written' = written \cup {"webfinger"}
    /\ pc' = "create_following"
    /\ UNCHANGED <<clock, entries, featured_note, notes, notes_sorted, paginate_by, error,
                   posts, toots, outbox, featured,
                   pseudo_note_filename, pseudo_note, object_note>>

create_following ==
    /\ pc = "create_following"
    /\ error = ""
    /\ written' = written \cup {"following"}
    /\ pc' = "create_followers"
    /\ UNCHANGED <<clock, entries, featured_note, notes, notes_sorted, paginate_by, error,
                   posts, toots, outbox, featured,
                   pseudo_note_filename, pseudo_note, object_note>>

create_followers ==
    /\ pc = "create_followers"
    /\ error = ""
    /\ written' = written \cup {"followers"}
    /\ pc' = "generate_notes"
    /\ UNCHANGED <<clock, entries, featured_note, notes, notes_sorted, paginate_by, error,
                   posts, toots, outbox, featured,
                   pseudo_note_filename, pseudo_note, object_note>>

\* if pseudo_note.is_file() and pseudo_note.name != ".gitkeep"
IsPseudoNote(entry) == entry.is_file /\ Name(entry.path) # F_gitkeep

\* list(generate_notes(config, entries_path)): the notes parsed so far, and the
\* error of the first pseudo note that does not parse
\* times[k]: the wall clock when the k-th glob entry is reached
RECURSIVE ParseAll(_, _, _, _)
ParseAll(files, parsed, times, k) ==
    IF k > Len(files) THEN [err |-> "", notes |-> parsed]
    ELSE IF ~IsPseudoNote(files[k]) THEN ParseAll(files, parsed, times, k + 1)
    ELSE LET r == parse_notes(Name(files[k].path), readlines(files[k].text),
                              times[k]) IN
         IF ~r.ok THEN [err |-> r.err, notes |-> parsed]
         ELSE ParseAll(files, Append(parsed, r.note), times, k + 1)

\* the wall clock readings of n steps in a row, the first one not before t
RECURSIVE Readings(_, _)
Readings(t, n) ==
    IF n = 0 THEN {<<>>}
    ELSE UNION {{<<t2>> \o rest : rest \in Readings(t2, n - 1)} : t2 \in Later(t)}

generate_notes ==
    /\ pc = "generate_notes"
    /\ error = ""
    /\ \E times \in Readings(clock, Len(entries)) :
       \E r \in {ParseAll(entries, <<>>, times, 1)} :
       /\ clock' = (IF times = <<>> THEN clock ELSE times[Len(times)])
       /\ IF r.err # ""
          THEN Abort(r.err) /\ notes' = notes
          ELSE notes' = r.notes /\ pc' = "create_posts" /\ error' = error
    /\ UNCHANGED <<entries, featured_note, notes_sorted, paginate_by,
                   written, posts, toots, outbox, featured,
                   pseudo_note_filename, pseudo_note, object_note>>

\* the loop of create_posts: the files written so far, and the error that ended it
RECURSIVE WritePosts(_, _, _)
WritePosts(heap, k, files) ==
    IF k > Len(heap) THEN [err |-> "", posts |-> files]
    ELSE LET parts == RSplit1(heap[k][K_filename], Dot) IN
         IF Len(parts) # 2 THEN [err |-> "ValueError: filename", posts |-> files]
         ELSE IF parts[1] = <<>> \/ \E c \in 1..Len(parts[1]) : parts[1][c] = Slash
         THEN [err |-> "OSError: open", posts |-> files]
         ELSE WritePosts(heap, k + 1,
                         Update(files, OneKey(parts[1], DumpNote(heap[k]))))

create_posts ==
    /\ pc = "create_posts"
    /\ error = ""
    /\ clock' \in Later(clock)
    /\ \E w \in {WritePosts(notes, 1, posts)} :
       /\ posts' = w.posts
       /\ IF w.err # "" THEN Abort(w.err) /\ featured' = featured
          ELSE IF featured_note = <<>>
          THEN pc' = "create_outbox" /\ error' = error /\ featured' = featured
          ELSE \E r \in {parse_notes(Name(featured_note[1].path),
                                     readlines(featured_note[1].text), clock')} :
               IF ~r.ok THEN Abort(r.err) /\ featured' = featured
               ELSE /\ featured' = <<[totalItems |-> 1, orderedItems |-> <<r.note>>]>>
                    /\ pc' = "create_outbox"
                    /\ error' = error
    /\ UNCHANGED <<entries, featured_note, notes, notes_sorted, paginate_by,
                   written, toots, outbox,
                   pseudo_note_filename, pseudo_note, object_note>>

create_outbox ==
    /\ pc = "create_outbox"
    /\ error = ""
    /\ \E keys \in {SortKeys(notes, 1)} :
       IF \E i \in 1..Len(keys) : ~keys[i].ok
       THEN /\ Abort("ValueError: strptime")
            /\ UNCHANGED <<notes, notes_sorted, paginate_by, toots, outbox>>
       ELSE \E sorted \in {SortedDesc(keys, 1)} :
            \E configured \in 0..MaxPaginate :
            \E order \in {Paginate(sorted, configured)} :
            \* every note holds "published" here, so the now() that
            \* generate_create_activity evaluates is never the value used
            \E r \in {CreateActivities(notes, order, 1, <<>>, clock)} :
            /\ paginate_by' = configured
            /\ notes' = r.heap
            /\ notes_sorted' = order
            /\ IF r.err # ""
               THEN Abort(r.err) /\ UNCHANGED <<toots, outbox>>
               ELSE /\ toots' = <<[totalItems   |-> Len(r.items),
                                   orderedItems |-> [k \in 1..Len(r.items) |->
                                        DumpActivity(r.heap, r.items[k])]]>>
                    /\ outbox' = <<[totalItems |-> Len(r.items)]>>
                    /\ pc' = "done"
                    /\ error' = error
    /\ UNCHANGED <<clock, entries, featured_note,
                   written, posts, featured,
                   pseudo_note_filename, pseudo_note, object_note>>

Next ==
    \/ mkdir
    \/ create_instance_files
    \/ create_actor
    \/ create_webfinger
    \/ create_following
    \/ create_followers
    \/ generate_notes
    \/ create_posts
    \/ create_outbox

Spec == Init /\ [][Next]_vars

-----------------------------------------------------------------------------
(* The parse harness: parse_notes applied to one filename and one pseudo note *)

InitParse ==
    /\ pc = "parse"
    /\ pseudo_note_filename \in Filenames
    /\ pseudo_note \in SeqsUpTo(Lines, MaxLines)
    /\ clock \in Clocks
    /\ object_note = ParseError("")
    /\ entries = <<>>
    /\ featured_note = <<>>
    /\ notes = <<>>
    /\ notes_sorted = <<>>
    /\ paginate_by = 0
    /\ error = ""
    /\ written = {}
    /\ posts = EmptyDict
    /\ toots = <<>>
    /\ outbox = <<>>
    /\ featured = <<>>

ParseNotes ==
    /\ pc = "parse"
    /\ object_note' = parse_notes(pseudo_note_filename, pseudo_note, clock)
    /\ pc' = "parsed"
    /\ UNCHANGED <<clock, entries, featured_note, notes, notes_sorted, paginate_by, error,
                   written, posts, toots, outbox, featured,
                   pseudo_note_filename, pseudo_note>>

SpecParse == InitParse /\ [][ParseNotes]_vars

-----------------------------------------------------------------------------
(* What the properties below read off a state *)

HasContext(note) == K_context \in DOMAIN note /\ note[K_context] # <<>>
WithoutContext(note) == [k \in (DOMAIN note) \ {K_context} |-> note[k]]
Min(a, b) == IF a <= b THEN a ELSE b

\* the datetime of note i's published value
Published(i) == str_to_datetime(notes[i][K_published])

\* the orderedItems of the toots file written
Items == toots[1].orderedItems

\* posts/<note_id> of note i, as create_posts names it
PostId(i) == RSplit1(notes[i][K_filename], Dot)[1]

OutputFiles ==
    {"index.html", "CNAME", ".nojekyll", "actor", "webfinger", "followers", "following"}

\* the harness input: its delimiter lines, header block and body
Delims == DelimiterIndexes(pseudo_note)
HeaderBlock == SubSeq(pseudo_note, SetMin(Delims) + 1, SetMax(Delims) - 1)
Body == SubSeq(pseudo_note, SetMax(Delims) + 1, Len(pseudo_note))
HasExtension == Len(RSplit1(pseudo_note_filename, Dot)) = 2

\* a header line cut at its FIRST ": " only, key and value stripped
SplitFirst(line) ==
    LET s == remove_newlines_strip(line)
        i == SetMin(Occurrences(s, Separator)) IN
    <<Strip(SubSeq(s, 1, i - 1)), Strip(SubSeq(s, i + Len(Separator), Len(s)))>>
HasSeparator(line) == Occurrences(remove_newlines_strip(line), Separator) # {}
\* a header line with exactly one ": "
OneSeparator(line) == Cardinality(Occurrences(remove_newlines_strip(line), Separator)) = 1

DefaultKeys ==
    {K_context, K_id, K_to, K_sensitive, K_filename, K_content, K_published}

-----------------------------------------------------------------------------
(* C1 *)

\* C1: when parse_notes raises in generate_notes, this run has written no
\* output file: none of index.html, CNAME, .nojekyll, the actor file, webfinger,
\* followers, following, posts/*, featured, toots, outbox.
C1_NothingWrittenWhenParseFails ==
    (pc = "generate_notes" /\ error # "") =>
        /\ written \cap OutputFiles = {}
        /\ DOMAIN posts = {}
        /\ featured = <<>>
        /\ toots = <<>>
        /\ outbox = <<>>

-----------------------------------------------------------------------------
(* C2 *)

\* C2: the totalItems create_outbox writes to toots and to outbox is
\* min(len(notes), paginate_by) when paginate_by > 0 and len(notes) when it is
\* 0, and is the length of orderedItems; an empty note list gives 0 items and
\* no error.
C2_TotalItems ==
    /\ (toots = <<>>) <=> (outbox = <<>>)
    /\ toots # <<>> =>
        LET expected == IF paginate_by > 0 THEN Min(Len(notes), paginate_by)
                        ELSE Len(notes) IN
        /\ toots[1].totalItems = expected
        /\ outbox[1].totalItems = expected
        /\ Len(Items) = toots[1].totalItems
    /\ (pc = "create_outbox" /\ notes = <<>>) => error = ""
    /\ (pc = "done" /\ notes = <<>>) => (toots[1].totalItems = 0 /\ Items = <<>>)

\* two notes, one kept: the page is cut
C2_Witness ==
    /\ pc = "done"
    /\ Len(notes) = 2
    /\ paginate_by = 1
    /\ toots[1].totalItems = 1
    /\ outbox[1].totalItems = 1

-----------------------------------------------------------------------------
(* C3 *)

\* C3: orderedItems of toots is non-increasing in published: of two adjacent
\* activities, the earlier one's published time is not before the later one's.
C3_NonIncreasing ==
    toots # <<>> =>
        \A k \in 1..(Len(Items) - 1) :
            LET first == str_to_datetime(Items[k].published)
                second == str_to_datetime(Items[k + 1].published) IN
            first.ok /\ second.ok /\ DateLeq(second.dt, first.dt)

\* two notes enumerated oldest first, both in the page: the sort moved them
C3_Witness ==
    /\ pc = "done"
    /\ Len(notes) = 2
    /\ Len(Items) = 2
    /\ DateLess(Published(1).dt, Published(2).dt)
    /\ Items[1].published = notes[2][K_published]

-----------------------------------------------------------------------------
(* C4 *)

\* C4: the id of the Note parse_notes returns is "{domain}/posts/{filename
\* without its final extension}", whatever the header block holds.
C4_IdFromFilename ==
    (pc = "parsed" /\ object_note.ok) =>
        object_note.note[K_id] =
            Domain \o POSTS \o RSplit1(pseudo_note_filename, Dot)[1]

-----------------------------------------------------------------------------
(* C5 *)

\* what C5 says of a pseudo note with exactly two delimiter lines and a header
\* block of lines holding one ": " each
C5_TwoDelimiters ==
    /\ object_note.ok
    /\ object_note.note[K_content] = Join(Body)
    /\ \A key \in (DOMAIN object_note.note) \ DefaultKeys :
           \E i \in 1..Len(HeaderBlock) : SplitFirst(HeaderBlock[i])[1] = key
    /\ \A i \in 1..Len(HeaderBlock) :
           LET kv == SplitFirst(HeaderBlock[i]) IN
           (kv[1] # K_content
            /\ \A j \in (i + 1)..Len(HeaderBlock) : SplitFirst(HeaderBlock[j])[1] # kv[1])
               => object_note.note[kv[1]] = kv[2]
    /\ object_note.note =
           parse_notes(pseudo_note_filename,
                       SubSeq(pseudo_note, SetMin(Delims), Len(pseudo_note)),
                       clock).note

\* C5: parse_notes raises when the lines starting with "---" are not exactly
\* two; with exactly two and a well formed header block it succeeds, takes the
\* header entries from the lines strictly between the delimiters only, ignores
\* the lines before the first delimiter, and content is the lines after the
\* second delimiter joined unchanged.
C5_ExactlyTwoDelimiters ==
    pc = "parsed" =>
        /\ Cardinality(Delims) # 2 => ~object_note.ok
        /\ (Cardinality(Delims) = 2
            /\ \A i \in 1..Len(HeaderBlock) : OneSeparator(HeaderBlock[i]))
               => C5_TwoDelimiters

\* the same for a filename that has an extension (not the claim: this part of
\* it is what parse_notes does)
C5_WithExtension ==
    (pc = "parsed" /\ HasExtension) => C5_ExactlyTwoDelimiters

-----------------------------------------------------------------------------
(* C6 *)

\* C6: a header line is split at its first ": " only: a line whose value holds
\* ": " parses, the value kept whole, and a line with no ": " fails the parse.
C6_SplitOnFirstSeparator ==
    (pc = "parsed" /\ Cardinality(Delims) = 2 /\ HasExtension) =>
        /\ (\E i \in 1..Len(HeaderBlock) : ~HasSeparator(HeaderBlock[i]))
               => ~object_note.ok
        /\ (\A i \in 1..Len(HeaderBlock) : HasSeparator(HeaderBlock[i])) =>
               /\ object_note.ok
               /\ \A i \in 1..Len(HeaderBlock) :
                      LET kv == SplitFirst(HeaderBlock[i]) IN
                      (kv[1] # K_content
                       /\ \A j \in (i + 1)..Len(HeaderBlock) :
                              SplitFirst(HeaderBlock[j])[1] # kv[1])
                          => object_note.note[kv[1]] = kv[2]

-----------------------------------------------------------------------------
(* C7 *)

\* C7: the Notes of one run have pairwise different ids and are written to
\* pairwise different posts/<id> files.
C7_UniqueIds ==
    (pc \in {"create_outbox", "done"} /\ error = "") =>
        /\ \A i, j \in 1..Len(notes) : i # j => notes[i][K_id] # notes[j][K_id]
        /\ \A i, j \in 1..Len(notes) : i # j => PostId(i) # PostId(j)
        /\ Cardinality(DOMAIN posts) = Len(notes)

-----------------------------------------------------------------------------
(* C8 *)

\* C8: in a successful run every posts/<id> file holds a full Note document
\* with its @context, and no Note embedded in an activity of toots has one.
C8_ContextInPostsOnly ==
    pc = "done" =>
        /\ \A i \in 1..Len(notes) : PostId(i) \in DOMAIN posts
        /\ \A id \in DOMAIN posts :
               /\ HasContext(posts[id])
               /\ \E i \in 1..Len(notes) :
                      /\ PostId(i) = id
                      /\ WithoutContext(posts[id]) = WithoutContext(notes[i])
        /\ \A k \in 1..Len(Items) :
               /\ K_context \notin DOMAIN Items[k].object
               /\ Items[k].object = notes[notes_sorted[k]]

\* two posts written and both notes embedded in toots
C8_Witness ==
    /\ pc = "done"
    /\ Cardinality(DOMAIN posts) = 2
    /\ Len(Items) = 2
    /\ \A id \in DOMAIN posts : HasContext(posts[id])

-----------------------------------------------------------------------------
(* C9 *)

\* C9: with paginate_by > 0 and more notes than that, exactly paginate_by notes
\* are kept, none of them published before an omitted one, and the omitted
\* notes are in no page.
C9_MostRecentKept ==
    (toots # <<>> /\ paginate_by > 0 /\ Len(notes) > paginate_by) =>
        LET kept == {notes_sorted[k] : k \in 1..Len(notes_sorted)}
            omitted == (1..Len(notes)) \ kept IN
        /\ Len(notes_sorted) = paginate_by
        /\ Cardinality(kept) = paginate_by
        /\ Len(Items) = paginate_by
        /\ \A k \in 1..Len(Items) : Items[k].object = notes[notes_sorted[k]]
        /\ \A i \in kept, j \in omitted :
               DateLeq(Published(j).dt, Published(i).dt)
        /\ \A j \in omitted : HasContext(notes[j])

\* the older note comes first in the directory, and it is the one omitted
C9_Witness ==
    /\ pc = "done"
    /\ Len(notes) = 2
    /\ paginate_by = 1
    /\ DateLess(Published(1).dt, Published(2).dt)
    /\ notes_sorted = <<2>>

-----------------------------------------------------------------------------
(* C10 *)

\* C10: the assertion of generate_create_activity never fails in a run: every
\* note reaches create_outbox with a non-empty @context and is passed to
\* generate_create_activity at most once.
C10_AssertionNeverFails ==
    /\ error # "AssertionError: Note has no context?"
    /\ (pc = "create_outbox" /\ error = "") =>
           \A i \in 1..Len(notes) : HasContext(notes[i])
    /\ \A k, l \in 1..Len(notes_sorted) : k # l => notes_sorted[k] # notes_sorted[l]

\* a pseudo note whose header sets @context went through generate_create_activity
C10_Witness ==
    /\ pc = "done"
    /\ Len(notes_sorted) = 2
    /\ \E e \in 1..Len(entries) : entries[e].text = "context"

=============================================================================
